---------------------------- MODULE Spec2Model ----------------------------
(***************************************************************************)
(* DSA signature generation of libtomcrypt as bundled in cryptodev-linux:  *)
(* dsa_sign_hash_raw (the raw signer) and dsa_sign_hash (raw signer plus   *)
(* DER encoder), src/libtomcrypt/pk/dsa/dsa_sign_hash.c.                   *)
(*                                                                         *)
(* Every statement of the two functions is one step of an invocation; an   *)
(* invocation's locals live in inv[i], the key object is shared.  The      *)
(* arguments are taken to be non-NULL (the LTC_ARGCHK lines pass).         *)
(***************************************************************************)
EXTENDS Integers, Sequences, FiniteSets, TLC

VARIABLES key,      \* the dsa_key object both functions receive
          inv,      \* inv[i]: the arguments and locals of invocation i
          env       \* what the callers, the random source and the engine
                    \* can do in this run

vars == <<key, inv, env>>

-----------------------------------------------------------------------------
(* Bounds of the model *)

\* Random bytes range over 0..MaxByte in the single-invocation specification.
MaxByte == 7
\* Longest digest, in bytes.
MaxInLen == 2
\* The draw counter saturates here; a recorded draw log is at most this long.
MaxDraws == 2
\* Largest capacity the caller gives the output buffer of dsa_sign_hash.
MaxOutCap == 9

\* Byte values a digest is made of.
DigestBytes == {1}
\* Byte values of the random source when two invocations are interleaved.
ConcBytes == {1, 2, 3}

Procs == {1, 2}

-----------------------------------------------------------------------------
(* Program constants *)

\* tomcrypt_custom.h; compared with key->qord and used as the buffer size.
LTC_MDSA_MAX_GROUP == 512

PK_PUBLIC == "PK_PUBLIC"
PK_PRIVATE == "PK_PRIVATE"

CRYPT_OK == "CRYPT_OK"
CRYPT_PK_NOT_PRIVATE == "CRYPT_PK_NOT_PRIVATE"
CRYPT_INVALID_ARG == "CRYPT_INVALID_ARG"
CRYPT_MEM == "CRYPT_MEM"
CRYPT_ERROR == "CRYPT_ERROR"
CRYPT_BUFFER_OVERFLOW == "CRYPT_BUFFER_OVERFLOW"

\* The codes an arithmetic-engine call can report besides CRYPT_OK.
EngineErrs == {CRYPT_MEM, CRYPT_ERROR}

\* Secure-wipe build (#ifdef LTC_CLEAN_STACK around zeromem).
LTC_CLEAN_STACK == TRUE

-----------------------------------------------------------------------------
(* The big-integer engine, by what each operation computes *)

RECURSIVE ReadUnsignedBin(_)
\* mp_read_unsigned_bin: the bytes as an unsigned big-endian integer.
ReadUnsignedBin(b) ==
    IF b = <<>> THEN 0
    ELSE 256 * ReadUnsignedBin(SubSeq(b, 1, Len(b) - 1)) + b[Len(b)]

RECURSIVE Gcd(_, _)
\* mp_gcd
Gcd(a, b) == IF b = 0 THEN a ELSE Gcd(b, a % b)

\* mp_invmod succeeds exactly when an inverse exists.
HasInv(a, n) == n > 1 /\ Gcd(a % n, n) = 1

InvMod(a, n) == CHOOSE v \in 0..(n - 1) : (a * v) % n = 1

RECURSIVE ExptMod(_, _, _)
\* mp_exptmod: g^e mod p by square and multiply.
ExptMod(g, e, p) ==
    IF e = 0 THEN 1 % p
    ELSE LET h == ExptMod(g, e \div 2, p)
             sq == (h * h) % p
         IN  IF e % 2 = 1 THEN (sq * g) % p ELSE sq

-----------------------------------------------------------------------------
(* Keys and digests the callers supply *)

IsPrime(n) == n > 1 /\ \A d \in 2..(n - 1) : n % d # 0

\* Private keys with a one-byte group order: four valid ones (the last has
\* q > 127, for r and s with the top bit set) and one whose q is not prime.
SigningKeys ==
    { [type |-> PK_PRIVATE, qord |-> 1, p |-> K[1], q |-> K[2], g |-> K[3], x |-> K[4]] :
         K \in {<<11, 5, 3, 1>>, <<11, 5, 4, 2>>, <<7, 3, 2, 2>>,
                <<263, 131, 4, 2>>, <<5, 4, 2, 1>>} }

\* One group under every key type and group order size the gate tells apart.
GateKeys ==
    { [type |-> t, qord |-> o, p |-> 11, q |-> 5, g |-> 3, x |-> 2] :
         t \in {PK_PUBLIC, PK_PRIVATE},
         o \in {0, 1, LTC_MDSA_MAX_GROUP, LTC_MDSA_MAX_GROUP + 1} }

Keys == SigningKeys \cup GateKeys

\* A valid private key: q prime, q | p-1, g of order q mod p, 1 <= x < q.
ValidKey(K) ==
    /\ K.type = PK_PRIVATE
    /\ K.qord < LTC_MDSA_MAX_GROUP
    /\ IsPrime(K.p) /\ IsPrime(K.q)
    /\ (K.p - 1) % K.q = 0
    /\ K.g > 1 /\ K.g < K.p /\ ExptMod(K.g, K.q, K.p) = 1
    /\ K.x >= 1 /\ K.x < K.q

SeqsUpTo(S, n) == UNION { [1..m -> S] : m \in 0..n }

Digests == SeqsUpTo(DigestBytes, MaxInLen)

OutCaps == {7, 8, MaxOutCap}

\* The key of the interleaved runs: with it k = 1 is redrawn, k = 2 gives r = 0
\* (a retry) and k = 3 a signature.
ConcKeys == {[type |-> PK_PRIVATE, qord |-> 1, p |-> 11, q |-> 5, g |-> 4, x |-> 2]}

\* One invocation at a time: every digest and capacity, any byte from the
\* random source, an engine and an allocator that can fail.
SeqEnv ==
    [procs |-> {1}, digests |-> Digests, caps |-> OutCaps,
     bytes |-> 0..MaxByte, errs |-> EngineErrs, log |-> FALSE]

\* Two invocations interleaved, their draws recorded; the engine and the
\* allocator do not fail, so the draws alone decide an invocation's result.
ConcEnv ==
    [procs |-> Procs, digests |-> {<<1>>}, caps |-> {8},
     bytes |-> ConcBytes, errs |-> {}, log |-> TRUE]

\* The bytes of the fair random source: with q = 3 and q = 5 they give
\* k <= 1, gcd(k, q) # 1, r = 0, s = 0 and, for every key and digest, a
\* signature.
LiveBytes == 0..MaxByte

\* The keys of the fair runs: the valid keys of the small groups, and a
\* public and a private key with qord = 0.
LiveKeys ==
    {K \in SigningKeys : ValidKey(K) /\ K.p <= 11} \cup {K \in GateKeys : K.qord = 0}

\* One invocation at a time with an engine and an allocator that do not fail.
LiveEnv ==
    [procs |-> {1}, digests |-> {d \in Digests : Len(d) <= 1}, caps |-> {8},
     bytes |-> LiveBytes, errs |-> {}, log |-> FALSE]

\* Every value get_random_bytes can put in the buffer, for qord = 0 and 1.
LiveDraws == SeqsUpTo(LiveBytes, 1)

-----------------------------------------------------------------------------
(* State *)

\* An invocation that has not been called: mp_ints read 0 before mp_init.
\* bufst, tmpst and rsst follow the buffer, the temporaries k, kinv, tmp and
\* the temporaries r, s of dsa_sign_hash: "none" before acquisition, then
\* "alloc"/"init", then "freed"/"cleared"; a release of what is not held
\* gives "bad".  bufsz is the size allocated, wiped the bytes zeromem wrote.
IdleInv ==
    [entry |-> "none", pc |-> "idle", in |-> <<>>,
     r |-> 0, s |-> 0, rsst |-> "none",
     k |-> 0, kinv |-> 0, tmp |-> 0, tmpst |-> "none",
     buf |-> <<>>, bufst |-> "none", bufsz |-> 0, wiped |-> 0,
     err |-> "unset", rawret |-> "none", sig |-> <<0, 0>>,
     serr |-> "unset", ret |-> "none",
     out |-> <<>>, outlen |-> 0,
     ndraws |-> 0, fault |-> FALSE, log |-> <<>>]

Init ==
    /\ key \in Keys
    /\ inv = [i \in Procs |-> IdleInv]
    /\ env = SeqEnv

InitConc ==
    /\ key \in ConcKeys
    /\ inv = [i \in Procs |-> IdleInv]
    /\ env = ConcEnv

InitLive ==
    /\ key \in LiveKeys
    /\ inv = [i \in Procs |-> IdleInv]
    /\ env = LiveEnv

\* Invocation i moves to the locals c; nothing else is written.
Step(i, c) ==
    /\ inv' = [inv EXCEPT ![i] = c]
    /\ UNCHANGED <<key, env>>

\* GotoError that takes the failure for one more degenerate outcome and goes
\* back to the retry label.
GotoErrorRetry(c, e) == [c EXCEPT !.err = e, !.fault = TRUE, !.pc = "retry"]

\* An engine call reported e: err = e and control goes to the error label.
GotoError(c, e) == [c EXCEPT !.err = e, !.fault = TRUE, !.pc = "error"]

\* return code from dsa_sign_hash_raw, to its caller; sig is what the caller's
\* r and s hold at that moment.
RawReturn(c, code) ==
    [c EXCEPT !.rawret = code, !.sig = <<c.r, c.s>>,
              !.pc = IF c.entry = "sign" THEN "sign_chk" ELSE "done"]

-----------------------------------------------------------------------------
(* Callers *)

\* A caller invokes dsa_sign_hash_raw(in, inlen, r, s, key); r and s were
\* initialised with mp_init, as the function's comment requires.
CallSignRaw(i) ==
    /\ i \in env.procs /\ inv[i].pc = "idle"
    /\ \E d \in env.digests :
          Step(i, [IdleInv EXCEPT !.entry = "raw", !.pc = "raw_validate",
                                  !.in = d, !.rsst = "init"])

\* A caller invokes dsa_sign_hash(in, inlen, out, outlen, key) with a buffer
\* of cap bytes.
CallSign(i) ==
    /\ i \in env.procs /\ inv[i].pc = "idle"
    /\ \E d \in env.digests, cap \in env.caps :
          Step(i, [IdleInv EXCEPT !.entry = "sign", !.pc = "sign_init",
                                  !.in = d, !.out = [j \in 1..cap |-> 255],
                                  !.outlen = cap])

-----------------------------------------------------------------------------
(* dsa_sign_hash_raw *)

\* RawValidate with the two checks in the other order.
RawValidateQordFirst(i) ==
    /\ inv[i].pc = "raw_validate"
    /\ LET c == inv[i] IN
       IF key.qord >= LTC_MDSA_MAX_GROUP
       THEN Step(i, RawReturn(c, CRYPT_INVALID_ARG))
       ELSE IF key.type # PK_PRIVATE
       THEN Step(i, RawReturn(c, CRYPT_PK_NOT_PRIVATE))
       ELSE Step(i, [c EXCEPT !.pc = "raw_malloc"])

\* RawValidate with > for >= in the group order check.
RawValidateGt(i) ==
    /\ inv[i].pc = "raw_validate"
    /\ LET c == inv[i] IN
       IF key.type # PK_PRIVATE
       THEN Step(i, RawReturn(c, CRYPT_PK_NOT_PRIVATE))
       ELSE IF key.qord > LTC_MDSA_MAX_GROUP
       THEN Step(i, RawReturn(c, CRYPT_INVALID_ARG))
       ELSE Step(i, [c EXCEPT !.pc = "raw_malloc"])

\* Lines 42-49: the key type, then the group order size.
RawValidate(i) ==
    /\ inv[i].pc = "raw_validate"
    /\ LET c == inv[i] IN
       IF key.type # PK_PRIVATE
       THEN Step(i, RawReturn(c, CRYPT_PK_NOT_PRIVATE))
       ELSE IF key.qord >= LTC_MDSA_MAX_GROUP
       THEN Step(i, RawReturn(c, CRYPT_INVALID_ARG))
       ELSE Step(i, [c EXCEPT !.pc = "raw_malloc"])

\* Lines 51-54: buf = XMALLOC(LTC_MDSA_MAX_GROUP).
RawMalloc(i) ==
    /\ inv[i].pc = "raw_malloc"
    /\ LET c == inv[i] IN
       \/ Step(i, [c EXCEPT !.bufst = "alloc", !.bufsz = LTC_MDSA_MAX_GROUP,
                            !.pc = "raw_init"])
       \/ /\ CRYPT_MEM \in env.errs
          /\ Step(i, RawReturn([c EXCEPT !.fault = TRUE], CRYPT_MEM))

\* RawInit whose failure jumps to error, not to ERRBUF.
RawInitFailToError(i) ==
    /\ inv[i].pc = "raw_init"
    /\ LET c == inv[i] IN
       \/ Step(i, [c EXCEPT !.tmpst = "init", !.err = CRYPT_OK, !.pc = "retry"])
       \/ \E e \in env.errs :
            Step(i, [c EXCEPT !.err = e, !.fault = TRUE, !.pc = "error"])

\* Line 57: mp_init_multi(&k, &kinv, &tmp, NULL).
RawInit(i) ==
    /\ inv[i].pc = "raw_init"
    /\ LET c == inv[i] IN
       \/ Step(i, [c EXCEPT !.tmpst = "init", !.err = CRYPT_OK, !.pc = "retry"])
       \/ \E e \in env.errs :
            Step(i, [c EXCEPT !.err = e, !.fault = TRUE, !.pc = "ERRBUF"])

\* GenRandom with one buffer for all invocations (a static buf): the bytes
\* land in invocation 1's buffer.
GenRandomShared(i) ==
    /\ inv[i].pc = "retry"
    /\ env.log => Len(inv[i].log) < MaxDraws
    /\ \E b \in [1..key.qord -> env.bytes] :
          /\ inv' = [j \in Procs |->
                       LET c == IF j = 1 THEN [inv[j] EXCEPT !.buf = b] ELSE inv[j]
                       IN  IF j = i
                           THEN [c EXCEPT !.ndraws = IF @ < MaxDraws THEN @ + 1 ELSE @,
                                          !.log = IF env.log THEN Append(@, b) ELSE @,
                                          !.pc = "read_k"]
                           ELSE c]
          /\ UNCHANGED <<key, env>>

\* Line 63: get_random_bytes(buf, key->qord).
GenRandom(i) ==
    /\ inv[i].pc = "retry"
    /\ env.log => Len(inv[i].log) < MaxDraws
    /\ LET c == inv[i] IN
       \E b \in [1..key.qord -> env.bytes] :
          Step(i, [c EXCEPT !.buf = b,
                            !.ndraws = IF @ < MaxDraws THEN @ + 1 ELSE @,
                            !.log = IF env.log THEN Append(@, b) ELSE @,
                            !.pc = "read_k"])

\* Line 66: mp_read_unsigned_bin(&k, buf, key->qord).
ReadK(i) ==
    /\ inv[i].pc = "read_k"
    /\ LET c == inv[i] IN
       \/ Step(i, [c EXCEPT !.k = ReadUnsignedBin(c.buf), !.err = CRYPT_OK,
                            !.pc = "cmp_k"])
       \/ \E e \in env.errs : Step(i, GotoError(c, e))

\* CmpK that lets k = 1 through (k >= 1 for k > 1).
CmpKGe1(i) ==
    /\ inv[i].pc = "cmp_k"
    /\ LET c == inv[i] IN
       Step(i, [c EXCEPT !.pc = IF c.k >= 1 THEN "gcd" ELSE "retry"])

\* Line 69: k > 1 ?
CmpK(i) ==
    /\ inv[i].pc = "cmp_k"
    /\ LET c == inv[i] IN
       Step(i, [c EXCEPT !.pc = IF c.k > 1 THEN "gcd" ELSE "retry"])

\* Line 72: mp_gcd(&k, &key->q, &tmp).
TestGcd(i) ==
    /\ inv[i].pc = "gcd"
    /\ LET c == inv[i] IN
       \/ Step(i, [c EXCEPT !.tmp = Gcd(c.k, key.q), !.err = CRYPT_OK,
                            !.pc = "while"])
       \/ \E e \in env.errs : Step(i, GotoError(c, e))

\* Line 73: while (mp_cmp_d(&tmp, 1) != LTC_MP_EQ).
WhileGcd(i) ==
    /\ inv[i].pc = "while"
    /\ LET c == inv[i] IN
       Step(i, [c EXCEPT !.pc = IF c.tmp # 1 THEN "retry" ELSE "invmod"])

\* Line 76: mp_invmod(&k, &key->q, &kinv).
InvModK(i) ==
    /\ inv[i].pc = "invmod"
    /\ LET c == inv[i] IN
       \/ /\ HasInv(c.k, key.q)
          /\ Step(i, [c EXCEPT !.kinv = InvMod(c.k, key.q), !.err = CRYPT_OK,
                               !.pc = "exptmod"])
       \/ \E e \in env.errs : Step(i, GotoError(c, e))

\* Line 79: mp_exptmod(&key->g, &k, &key->p, r).
ExptModR(i) ==
    /\ inv[i].pc = "exptmod"
    /\ LET c == inv[i] IN
       \/ Step(i, [c EXCEPT !.r = ExptMod(key.g, c.k, key.p), !.err = CRYPT_OK,
                            !.pc = "mod"])
       \/ \E e \in env.errs : Step(i, GotoError(c, e))

\* ModR that leaves r = g^k mod p unreduced.
ModRNoReduce(i) ==
    /\ inv[i].pc = "mod"
    /\ LET c == inv[i] IN
       \/ Step(i, [c EXCEPT !.err = CRYPT_OK, !.pc = "chk_r"])
       \/ \E e \in env.errs : Step(i, GotoError(c, e))

\* Line 80: mp_mod(r, &key->q, r).
ModR(i) ==
    /\ inv[i].pc = "mod"
    /\ LET c == inv[i] IN
       \/ Step(i, [c EXCEPT !.r = c.r % key.q, !.err = CRYPT_OK, !.pc = "chk_r"])
       \/ \E e \in env.errs : Step(i, GotoError(c, e))

\* ChkR that answers r = 0 by reducing again, with the same k.
ChkRRedo(i) ==
    /\ inv[i].pc = "chk_r"
    /\ LET c == inv[i] IN
       Step(i, [c EXCEPT !.pc = IF c.r = 0 THEN "mod" ELSE "read_in"])

\* Line 82: if (mp_iszero(r)) goto retry.
ChkR(i) ==
    /\ inv[i].pc = "chk_r"
    /\ LET c == inv[i] IN
       Step(i, [c EXCEPT !.pc = IF c.r = 0 THEN "retry" ELSE "read_in"])

\* ReadIn that keeps only the leftmost qord bytes of the digest.
ReadInTruncated(i) ==
    /\ inv[i].pc = "read_in"
    /\ LET c == inv[i]
           n == IF Len(c.in) < key.qord THEN Len(c.in) ELSE key.qord
       IN
       \/ Step(i, [c EXCEPT !.tmp = ReadUnsignedBin(SubSeq(c.in, 1, n)),
                            !.err = CRYPT_OK, !.pc = "mul"])
       \/ \E e \in env.errs : Step(i, GotoError(c, e))

\* Line 85: mp_read_unsigned_bin(&tmp, in, inlen).
ReadIn(i) ==
    /\ inv[i].pc = "read_in"
    /\ LET c == inv[i] IN
       \/ Step(i, [c EXCEPT !.tmp = ReadUnsignedBin(c.in), !.err = CRYPT_OK,
                            !.pc = "mul"])
       \/ \E e \in env.errs : Step(i, GotoError(c, e))

\* Line 86: mp_mul(&key->x, r, s).
MulXR(i) ==
    /\ inv[i].pc = "mul"
    /\ LET c == inv[i] IN
       \/ Step(i, [c EXCEPT !.s = key.x * c.r, !.err = CRYPT_OK, !.pc = "add"])
       \/ \E e \in env.errs : Step(i, GotoError(c, e))

\* Line 87: mp_add(s, &tmp, s).
AddIn(i) ==
    /\ inv[i].pc = "add"
    /\ LET c == inv[i] IN
       \/ Step(i, [c EXCEPT !.s = c.s + c.tmp, !.err = CRYPT_OK, !.pc = "mulmod"])
       \/ \E e \in env.errs : Step(i, GotoError(c, e))

\* MulModS that multiplies by k, not by its inverse.
MulModSByK(i) ==
    /\ inv[i].pc = "mulmod"
    /\ LET c == inv[i] IN
       \/ Step(i, [c EXCEPT !.s = (c.s * c.k) % key.q, !.err = CRYPT_OK,
                            !.pc = "chk_s"])
       \/ \E e \in env.errs : Step(i, GotoError(c, e))

\* Line 88: mp_mulmod(s, &kinv, &key->q, s).
MulModS(i) ==
    /\ inv[i].pc = "mulmod"
    /\ LET c == inv[i] IN
       \/ Step(i, [c EXCEPT !.s = (c.s * c.kinv) % key.q, !.err = CRYPT_OK,
                            !.pc = "chk_s"])
       \/ \E e \in env.errs : Step(i, GotoError(c, e))

\* Lines 90-92: if (mp_iszero(s)) goto retry; err = CRYPT_OK.
ChkS(i) ==
    /\ inv[i].pc = "chk_s"
    /\ LET c == inv[i] IN
       IF c.s = 0
       THEN Step(i, [c EXCEPT !.pc = "retry"])
       ELSE Step(i, [c EXCEPT !.err = CRYPT_OK, !.pc = "error"])

\* Lines 93-94, label error: mp_clear_multi(&k, &kinv, &tmp, NULL).
ClearTemps(i) ==
    /\ inv[i].pc = "error"
    /\ LET c == inv[i] IN
       Step(i, [c EXCEPT !.k = 0, !.kinv = 0, !.tmp = 0,
                         !.tmpst = IF @ = "init" THEN "cleared" ELSE "bad",
                         !.pc = "ERRBUF"])

\* ErrBuf without the zeromem.
ErrBufNoWipe(i) ==
    /\ inv[i].pc = "ERRBUF"
    /\ Step(i, [inv[i] EXCEPT !.pc = "xfree"])

\* Lines 95-98, label ERRBUF: zeromem(buf, LTC_MDSA_MAX_GROUP) in a
\* secure-wipe build.
ErrBuf(i) ==
    /\ inv[i].pc = "ERRBUF"
    /\ LET c == inv[i] IN
       Step(i, [c EXCEPT !.buf = IF LTC_CLEAN_STACK
                                 THEN [j \in 1..Len(c.buf) |-> 0] ELSE c.buf,
                         !.wiped = IF LTC_CLEAN_STACK THEN LTC_MDSA_MAX_GROUP ELSE 0,
                         !.pc = "xfree"])

\* Lines 99-100: XFREE(buf); return err.
XFree(i) ==
    /\ inv[i].pc = "xfree"
    /\ LET c == inv[i] IN
       Step(i, RawReturn([c EXCEPT !.bufst = IF @ = "alloc" THEN "freed" ELSE "bad"],
                         c.err))

-----------------------------------------------------------------------------
(* The DER encoder of a sequence of two INTEGERs *)

RECURSIVE ToBytes(_)
\* The shortest big-endian byte string of n (one zero byte for 0).
ToBytes(n) == IF n < 256 THEN <<n>> ELSE Append(ToBytes(n \div 256), n % 256)

\* INTEGER: tag 2, length, content with a leading zero when the top bit is set.
DerInteger(n) ==
    LET b == ToBytes(n)
        c == IF b[1] >= 128 THEN <<0>> \o b ELSE b
    IN  <<2, Len(c)>> \o c

\* SEQUENCE { INTEGER a, INTEGER b }: tag 48 (0x30), length, content.
DerSequence(a, b) ==
    LET body == DerInteger(a) \o DerInteger(b)
    IN  <<48, Len(body)>> \o body

\* The decoder: the two integers of an encoded sequence, in their order, or
\* <<-1, -1>> when the bytes are no such sequence.
DerDecode(bytes) ==
    IF Len(bytes) < 8 \/ bytes[1] # 48 \/ bytes[2] # Len(bytes) - 2 \/ bytes[3] # 2
    THEN <<-1, -1>>
    ELSE LET n1 == bytes[4]
             t2 == 5 + n1
         IN  IF n1 < 1 \/ Len(bytes) < t2 + 2 \/ bytes[t2] # 2
                \/ Len(bytes) # t2 + 1 + bytes[t2 + 1]
             THEN <<-1, -1>>
             ELSE <<ReadUnsignedBin(SubSeq(bytes, 5, 4 + n1)),
                    ReadUnsignedBin(SubSeq(bytes, t2 + 2, Len(bytes)))>>

\* der_encode_sequence_multi(out, outlen, INTEGER a, INTEGER b): the locals
\* after the call.  A buffer too small is left as it is and the needed
\* length is reported.
DerEncodeSequenceMulti(c, a, b) ==
    LET enc == DerSequence(a, b) IN
    IF c.outlen < Len(enc)
    THEN [c EXCEPT !.outlen = Len(enc), !.serr = CRYPT_BUFFER_OVERFLOW]
    ELSE [c EXCEPT !.out = enc \o SubSeq(c.out, Len(enc) + 1, Len(c.out)),
                   !.outlen = Len(enc), !.serr = CRYPT_OK]

-----------------------------------------------------------------------------
(* dsa_sign_hash *)

\* Lines 124-126: mp_init_multi(&r, &s, NULL).
SignInit(i) ==
    /\ inv[i].pc = "sign_init"
    /\ LET c == inv[i] IN
       \/ Step(i, [c EXCEPT !.rsst = "init", !.pc = "raw_validate"])
       \/ /\ env.errs # {}
          /\ Step(i, [c EXCEPT !.fault = TRUE, !.ret = CRYPT_MEM, !.pc = "done"])

\* SignChk that goes on to the encoder whatever dsa_sign_hash_raw returned.
SignChkAlwaysEncode(i) ==
    /\ inv[i].pc = "sign_chk"
    /\ LET c == inv[i] IN
       Step(i, [c EXCEPT !.serr = c.rawret, !.pc = "sign_encode"])

\* Lines 128-130: err = dsa_sign_hash_raw(...); on an error goto error.
SignChk(i) ==
    /\ inv[i].pc = "sign_chk"
    /\ LET c == inv[i] IN
       Step(i, [c EXCEPT !.serr = c.rawret,
                         !.pc = IF c.rawret # CRYPT_OK THEN "sign_error"
                                ELSE "sign_encode"])

\* SignEncode that hands s and r to the encoder in the wrong order.
SignEncodeSwapped(i) ==
    /\ inv[i].pc = "sign_encode"
    /\ LET c == inv[i] IN
       Step(i, [DerEncodeSequenceMulti(c, c.s, c.r) EXCEPT !.pc = "sign_error"])

\* SignEncode that drops the encoder's return code.
SignEncodeIgnoreErr(i) ==
    /\ inv[i].pc = "sign_encode"
    /\ LET c == inv[i] IN
       Step(i, [DerEncodeSequenceMulti(c, c.r, c.s) EXCEPT !.serr = CRYPT_OK,
                                                         !.pc = "sign_error"])

\* Lines 132-135: err = der_encode_sequence_multi(out, outlen, r, s).
SignEncode(i) ==
    /\ inv[i].pc = "sign_encode"
    /\ LET c == inv[i] IN
       Step(i, [DerEncodeSequenceMulti(c, c.r, c.s) EXCEPT !.pc = "sign_error"])

\* Lines 137-139, label error: mp_clear_multi(&r, &s, NULL); return err.
SignError(i) ==
    /\ inv[i].pc = "sign_error"
    /\ LET c == inv[i] IN
       Step(i, [c EXCEPT !.r = 0, !.s = 0,
                         !.rsst = IF @ = "init" THEN "cleared" ELSE "bad",
                         !.ret = c.serr, !.pc = "done"])

-----------------------------------------------------------------------------
(* Specifications *)

Next ==
    \E i \in Procs :
       \/ CallSignRaw(i) \/ CallSign(i)
       \/ RawValidate(i) \/ RawMalloc(i) \/ RawInit(i)
       \/ GenRandom(i) \/ ReadK(i) \/ CmpK(i) \/ TestGcd(i) \/ WhileGcd(i)
       \/ InvModK(i) \/ ExptModR(i) \/ ModR(i) \/ ChkR(i)
       \/ ReadIn(i) \/ MulXR(i) \/ AddIn(i) \/ MulModS(i) \/ ChkS(i)
       \/ ClearTemps(i) \/ ErrBuf(i) \/ XFree(i)
       \/ SignInit(i) \/ SignChk(i) \/ SignEncode(i) \/ SignError(i)

\* One invocation at a time, every key and digest of the bounded sets.
Spec == Init /\ [][Next]_vars

\* Two invocations on the same key, interleaved statement by statement.
SpecConc == InitConc /\ [][Next]_vars

\* The invocation draws the bytes b at line 63.
Draws(b) == GenRandom(1) /\ inv'[1].buf = b

\* One invocation, no failure of the engine or the allocator, every statement
\* eventually executed, and a random source that gives every buffer value
\* again and again as long as draws go on.
SpecLive ==
    /\ InitLive /\ [][Next]_vars
    /\ WF_vars(Next)
    /\ \A b \in LiveDraws : SF_vars(Draws(b))

-----------------------------------------------------------------------------
(* Vocabulary of the properties *)

\* Invocation i has returned from dsa_sign_hash_raw.
RawReturned(i) == inv[i].rawret # "none"

\* Invocation i is inside dsa_sign_hash_raw, past the validation of the key.
InRawBody(i) ==
    inv[i].pc \in {"raw_malloc", "raw_init", "retry", "read_k", "cmp_k", "gcd",
                   "while", "invmod", "exptmod", "mod", "chk_r", "read_in",
                   "mul", "add", "mulmod", "chk_s", "error", "ERRBUF", "xfree"}

\* Invocation i has left the nonce loop (lines 61-73) with the k it holds.
PastNonceLoop(i) ==
    inv[i].pc \in {"invmod", "exptmod", "mod", "chk_r", "read_in", "mul", "add",
                   "mulmod", "chk_s"}

\* A reference DSA verifier for the public key y = g^x mod p of K.
Verify(K, h, r, s) ==
    /\ 0 < r /\ r < K.q /\ 0 < s /\ s < K.q
    /\ LET y == ExptMod(K.g, K.x, K.p)
           w == InvMod(s, K.q)
           u1 == (h * w) % K.q
           u2 == (r * w) % K.q
       IN  ((ExptMod(K.g, u1, K.p) * ExptMod(y, u2, K.p)) % K.p) % K.q = r

\* Invocation i took the step from the current state to the next one.
Stepped(i) == inv'[i] # inv[i]

-----------------------------------------------------------------------------
(* C1 *)

\* C1: for a valid private key, every successful return of dsa_sign_hash_raw
\* delivers r and s with 0 < r < q and 0 < s < q, whatever draws and retries
\* came before.
C1_SignatureInRange ==
    \A i \in Procs :
       (ValidKey(key) /\ inv[i].rawret = CRYPT_OK) =>
          /\ 0 < inv[i].sig[1] /\ inv[i].sig[1] < key.q
          /\ 0 < inv[i].sig[2] /\ inv[i].sig[2] < key.q

\* A success after at least one retry, with a nonce not below q.
C1_Witness ==
    \E i \in Procs :
       /\ ValidKey(key) /\ inv[i].rawret = CRYPT_OK /\ inv[i].entry = "raw"
       /\ inv[i].ndraws >= 2 /\ inv[i].buf # <<>>

-----------------------------------------------------------------------------
(* C2 *)

\* C2: for a valid private key and a digest of value h, every (r, s) returned
\* successfully by dsa_sign_hash_raw is accepted by the reference verifier for
\* y = g^x mod p.
C2_VerifierAccepts ==
    \A i \in Procs :
       (ValidKey(key) /\ inv[i].rawret = CRYPT_OK) =>
          Verify(key, ReadUnsignedBin(inv[i].in), inv[i].sig[1], inv[i].sig[2])

\* A signature over a digest whose value is not below q, after a retry.
C2_Witness ==
    \E i \in Procs :
       /\ ValidKey(key) /\ inv[i].rawret = CRYPT_OK
       /\ ReadUnsignedBin(inv[i].in) >= key.q /\ inv[i].ndraws >= 2

-----------------------------------------------------------------------------
(* C3 *)

\* C3: whenever dsa_sign_hash_raw returns an error, the caller's r and s hold
\* the values they had on entry (0, from mp_init).  Stated for the valid
\* private keys, the case the claim is least demanding in.
C3_ErrorLeavesRS ==
    \A i \in Procs :
       (ValidKey(key) /\ RawReturned(i) /\ inv[i].rawret # CRYPT_OK) =>
          inv[i].sig = <<0, 0>>

-----------------------------------------------------------------------------
(* C4 *)

\* C4: with a key that is not private, dsa_sign_hash_raw returns
\* CRYPT_PK_NOT_PRIVATE whatever the group order size, never reaches the
\* allocation of the nonce buffer and never calls the random source.
C4_NotPrivate ==
    key.type # PK_PRIVATE =>
       \A i \in Procs :
          /\ inv[i].rawret \in {"none", CRYPT_PK_NOT_PRIVATE}
          /\ ~InRawBody(i)
          /\ inv[i].bufst = "none" /\ inv[i].ndraws = 0

\* A public key with an oversized group order was refused as not private.
C4_Witness ==
    \E i \in Procs :
       /\ key.type = PK_PUBLIC /\ key.qord >= LTC_MDSA_MAX_GROUP
       /\ inv[i].rawret = CRYPT_PK_NOT_PRIVATE /\ inv[i].pc = "done"

-----------------------------------------------------------------------------
(* C5 *)

\* C5 as stated: with qord >= LTC_MDSA_MAX_GROUP, dsa_sign_hash_raw returns
\* the parameter-too-large error (CRYPT_INVALID_ARG) for every key type.
C5_TooLargeAnyType ==
    key.qord >= LTC_MDSA_MAX_GROUP =>
       \A i \in Procs : inv[i].rawret \in {"none", CRYPT_INVALID_ARG}

\* C5 amended: with qord >= LTC_MDSA_MAX_GROUP, dsa_sign_hash_raw returns
\* CRYPT_INVALID_ARG when the key is private and CRYPT_PK_NOT_PRIVATE when it
\* is not, in both cases before any allocation and any random generation.
C5_TooLargePrivate ==
    key.qord >= LTC_MDSA_MAX_GROUP =>
       \A i \in Procs :
          /\ inv[i].rawret \in
                {"none", IF key.type = PK_PRIVATE THEN CRYPT_INVALID_ARG
                                                  ELSE CRYPT_PK_NOT_PRIVATE}
          /\ ~InRawBody(i)
          /\ inv[i].bufst = "none" /\ inv[i].ndraws = 0

\* A private key with qord exactly at the bound was refused.
C5_Witness ==
    \E i \in Procs :
       /\ key.type = PK_PRIVATE /\ key.qord = LTC_MDSA_MAX_GROUP
       /\ inv[i].rawret = CRYPT_INVALID_ARG /\ inv[i].pc = "done"

-----------------------------------------------------------------------------
(* C6 *)

\* What one step of invocation i does at the degenerate outcomes: each sends
\* control to the retry label without returning, the retry label fills the
\* buffer anew, and the read that follows takes k from that fill.
C6_RetryStep(i) ==
    LET c == inv[i]
        d == inv'[i]
    IN  Stepped(i) =>
          /\ (c.pc = "cmp_k" /\ c.k <= 1) => (d.pc = "retry" /\ d.rawret = "none")
          /\ (c.pc = "while" /\ c.tmp # 1) => (d.pc = "retry" /\ d.rawret = "none")
          /\ (c.pc = "chk_r" /\ c.r = 0) => (d.pc = "retry" /\ d.rawret = "none")
          /\ (c.pc = "chk_s" /\ c.s = 0) => (d.pc = "retry" /\ d.rawret = "none")
          /\ c.pc = "retry" => (d.pc = "read_k" /\ Len(d.buf) = key.qord
                                /\ d.ndraws >= 1)
          /\ (c.pc = "read_k" /\ d.pc # "error") =>
                (d.pc = "cmp_k" /\ d.k = ReadUnsignedBin(c.buf))
          /\ d.pc = "gcd" => d.k > 1

\* Without a failure of the engine or the allocator, a key that passed the
\* gate sees no return but success, with r and s in range when it is valid.
C6_OnlySuccess ==
    \A i \in Procs :
       (RawReturned(i) /\ ~inv[i].fault /\ key.type = PK_PRIVATE
          /\ key.qord < LTC_MDSA_MAX_GROUP) =>
             /\ inv[i].rawret = CRYPT_OK
             /\ ValidKey(key) =>
                   /\ 0 < inv[i].sig[1] /\ inv[i].sig[1] < key.q
                   /\ 0 < inv[i].sig[2] /\ inv[i].sig[2] < key.q

\* C6: the degenerate outcomes k <= 1, gcd(k, q) # 1, r = 0 and s = 0 are
\* never surfaced as an error: each restarts at nonce generation, with a new
\* fill of the buffer and a new read of k, and if nothing fails the only
\* return is success.  A draw of k = 1 is followed by a redraw.
C6_DegenerateRetries ==
    /\ []C6_OnlySuccess
    /\ [][\A i \in Procs : C6_RetryStep(i)]_vars

\* k = 1 was drawn and the call is back at the retry label, about to draw
\* again, with nothing returned.
C6_Witness ==
    \E i \in Procs :
       /\ ValidKey(key) /\ inv[i].pc = "retry" /\ inv[i].k = 1
       /\ inv[i].rawret = "none" /\ inv[i].ndraws >= 1

-----------------------------------------------------------------------------
(* C7 *)

\* C7: when dsa_sign_hash returns CRYPT_OK, decoding the outlen bytes it
\* wrote as a sequence of two unsigned integers gives the pair (r, s) of its
\* dsa_sign_hash_raw call, in that order, and outlen is the length of that
\* encoding.
C7_RoundTrip ==
    \A i \in Procs :
       (inv[i].entry = "sign" /\ inv[i].ret = CRYPT_OK) =>
          /\ inv[i].outlen <= Len(inv[i].out)
          /\ DerDecode(SubSeq(inv[i].out, 1, inv[i].outlen)) = inv[i].sig
          /\ inv[i].outlen = Len(DerSequence(inv[i].sig[1], inv[i].sig[2]))
          /\ inv[i].rawret = CRYPT_OK

\* A signature with r # s and a component above 127 was encoded.
C7_Witness ==
    \E i \in Procs :
       /\ inv[i].entry = "sign" /\ inv[i].ret = CRYPT_OK
       /\ inv[i].sig[1] # inv[i].sig[2] /\ inv[i].sig[2] > 127

-----------------------------------------------------------------------------
(* C8 *)

\* C8: dsa_sign_hash with an output buffer smaller than the encoding of
\* (r, s) returns CRYPT_BUFFER_OVERFLOW and leaves every byte of the buffer
\* as it was on entry.
C8_BufferTooSmall ==
    \A i \in Procs :
       (inv[i].entry = "sign" /\ inv[i].ret # "none" /\ inv[i].rawret = CRYPT_OK
          /\ Len(inv[i].out) < Len(DerSequence(inv[i].sig[1], inv[i].sig[2]))) =>
             /\ inv[i].ret = CRYPT_BUFFER_OVERFLOW
             /\ inv[i].out = [j \in 1..Len(inv[i].out) |-> 255]

\* A call with a buffer one byte short has returned.
C8_Witness ==
    \E i \in Procs :
       /\ inv[i].entry = "sign" /\ inv[i].pc = "done" /\ inv[i].rawret = CRYPT_OK
       /\ Len(inv[i].out) + 1 = Len(DerSequence(inv[i].sig[1], inv[i].sig[2]))
       /\ inv[i].ret = CRYPT_BUFFER_OVERFLOW

-----------------------------------------------------------------------------
(* C9 *)

\* One pass of lines 63-90 over the draw b: the pair (r, s), or <<0, 0>> when
\* the pass ends in a retry.
SoloAttempt(K, h, b) ==
    LET k == ReadUnsignedBin(b) IN
    IF k <= 1 \/ Gcd(k, K.q) # 1 THEN <<0, 0>>
    ELSE LET kinv == InvMod(k, K.q)
             r == ExptMod(K.g, k, K.p) % K.q
             s == ((h + K.x * r) * kinv) % K.q
         IN  IF r = 0 \/ s = 0 THEN <<0, 0>> ELSE <<r, s>>

RECURSIVE SoloLoop(_, _, _, _)
\* The passes over draws[n..]: the call is still running when the draws end
\* in a retry, and returns at the first pass that does not.
SoloLoop(K, h, draws, n) ==
    IF n > Len(draws) THEN [ret |-> "none", sig |-> <<0, 0>>]
    ELSE LET a == SoloAttempt(K, h, draws[n]) IN
         IF a = <<0, 0>> THEN SoloLoop(K, h, draws, n + 1)
         ELSE IF n = Len(draws) THEN [ret |-> CRYPT_OK, sig |-> a]
         ELSE [ret |-> "overrun", sig |-> a]

\* dsa_sign_hash_raw run alone on (K, digest d) with the draws given, no
\* engine or allocator failure: its return code and the (r, s) it leaves.
SoloRaw(K, d, draws) ==
    IF K.type # PK_PRIVATE THEN [ret |-> CRYPT_PK_NOT_PRIVATE, sig |-> <<0, 0>>]
    ELSE IF K.qord >= LTC_MDSA_MAX_GROUP
    THEN [ret |-> CRYPT_INVALID_ARG, sig |-> <<0, 0>>]
    ELSE SoloLoop(K, ReadUnsignedBin(d), draws, 1)

\* dsa_sign_hash run alone: its return code, output bytes and length.
SoloSign(K, d, cap, draws) ==
    LET raw == SoloRaw(K, d, draws)
        blank == [j \in 1..cap |-> 255]
        enc == DerSequence(raw.sig[1], raw.sig[2])
    IN  IF raw.ret # CRYPT_OK THEN [ret |-> raw.ret, out |-> blank, outlen |-> cap]
        ELSE IF cap < Len(enc)
        THEN [ret |-> CRYPT_BUFFER_OVERFLOW, out |-> blank, outlen |-> Len(enc)]
        ELSE [ret |-> CRYPT_OK, out |-> enc \o SubSeq(blank, Len(enc) + 1, cap),
              outlen |-> Len(enc)]

\* What an invocation has returned is what it returns alone on its own draws.
C9_AsAlone ==
    \A i \in Procs :
       /\ RawReturned(i) =>
             [ret |-> inv[i].rawret, sig |-> inv[i].sig]
                = SoloRaw(key, inv[i].in, inv[i].log)
       /\ (inv[i].entry = "sign" /\ inv[i].ret # "none") =>
             [ret |-> inv[i].ret, out |-> inv[i].out, outlen |-> inv[i].outlen]
                = SoloSign(key, inv[i].in, Len(inv[i].out), inv[i].log)

\* A step writes no field of the key and the locals of one invocation only.
C9_NoSharedWrite ==
    /\ key' = key
    /\ \A i, j \in Procs : (Stepped(i) /\ j # i) => inv'[j] = inv[j]

\* C9: dsa_sign_hash_raw and dsa_sign_hash never write a field of the key and
\* share no mutable state, so of two invocations interleaved statement by
\* statement on the same key each returns what it returns alone with the same
\* random draws.
C9_Interleaving ==
    /\ []C9_AsAlone
    /\ [][C9_NoSharedWrite]_vars

\* Invocation 1 returned a signature after a retry while invocation 2 was
\* between its own exponentiation and its own reduction.
C9_Witness ==
    /\ env.log
    /\ inv[1].rawret = CRYPT_OK /\ Len(inv[1].log) = 2
    /\ inv[2].pc = "mod" /\ Len(inv[2].log) = 1 /\ inv[2].log # <<inv[1].log[2]>>

-----------------------------------------------------------------------------
(* C10 *)

\* C10: every nonce k that leaves the nonce loop, and is used for k_inv, r
\* and s, satisfies 1 < k < q and gcd(k, q) = 1.  Stated for the valid
\* private keys, the case the claim is least demanding in.
C10_NonceBelowQ ==
    \A i \in Procs :
       (ValidKey(key) /\ PastNonceLoop(i)) =>
          /\ 1 < inv[i].k /\ inv[i].k < key.q
          /\ Gcd(inv[i].k, key.q) = 1

-----------------------------------------------------------------------------
(* C11 *)

\* Invocation i is inside dsa_sign_hash_raw after an engine call of lines
\* 57-88 reported an error.
EngineFailed(i) ==
    inv[i].fault /\ inv[i].pc \in {"error", "ERRBUF", "xfree"}

\* One step of invocation i around an engine failure: the failing call leaves
\* the code it reported in err and goes to the release of the scratch state;
\* from there on no byte is drawn, no value of r, s, k, kinv, tmp is computed,
\* err keeps the code and the return hands it to the caller.
C11_FailureStep(i) ==
    LET c == inv[i]
        d == inv'[i]
    IN  /\ (Stepped(i) /\ InRawBody(i) /\ c.pc # "raw_malloc" /\ ~c.fault /\ d.fault) =>
              /\ d.pc = IF c.pc = "raw_init" THEN "ERRBUF" ELSE "error"
              /\ d.err \in env.errs
              /\ d.ndraws = c.ndraws /\ d.buf = c.buf
              /\ d.r = c.r /\ d.s = c.s /\ d.k = c.k /\ d.kinv = c.kinv /\ d.tmp = c.tmp
        /\ (Stepped(i) /\ EngineFailed(i)) =>
              /\ d.pc = CASE c.pc = "error" -> "ERRBUF"
                           [] c.pc = "ERRBUF" -> "xfree"
                           [] c.pc = "xfree" -> IF c.entry = "sign" THEN "sign_chk"
                                                ELSE "done"
              /\ d.err = c.err /\ d.ndraws = c.ndraws
              /\ d.r = c.r /\ d.s = c.s
              /\ d.k \in {c.k, 0} /\ d.kinv \in {c.kinv, 0} /\ d.tmp \in {c.tmp, 0}
              /\ c.pc = "xfree" => d.rawret = c.err
              /\ c.pc # "xfree" => d.rawret = "none"

\* C11: an engine failure inside dsa_sign_hash_raw is never retried: after it
\* no random fill and no arithmetic step is executed in that call, and the
\* call returns the code the engine reported.
C11_FailureNotRetried ==
    [][\A i \in Procs : C11_FailureStep(i)]_vars

\* A call returned CRYPT_ERROR, reported by the engine after a retry and after
\* r had been computed.
C11_Witness ==
    \E i \in Procs :
       /\ inv[i].fault /\ inv[i].rawret = CRYPT_ERROR /\ inv[i].ndraws >= 2
       /\ inv[i].sig[1] # 0

-----------------------------------------------------------------------------
(* C12 *)

\* Invocation i has passed the test of s at line 90 and is about to release
\* its scratch state with err = CRYPT_OK.
Succeeding(i) == inv[i].pc = "error" /\ ~inv[i].fault

\* At that point r and s are what the last fill of the buffer and the whole
\* digest give.
C12_FromLastNonce ==
    \A i \in Procs :
       /\ Succeeding(i) =>
             LET c == inv[i]
                 h == ReadUnsignedBin(c.in)
             IN  /\ c.err = CRYPT_OK
                 /\ c.k = ReadUnsignedBin(c.buf)
                 /\ 0 <= c.kinv /\ c.kinv < key.q /\ (c.k * c.kinv) % key.q = 1
                 /\ c.r = ExptMod(key.g, c.k, key.p) % key.q
                 /\ c.s = ((h + key.x * c.r) * c.kinv) % key.q
       /\ inv[i].rawret = CRYPT_OK => ~inv[i].fault

\* From there to the return r and s are not written, and the caller gets them.
C12_KeptToReturn(i) ==
    LET c == inv[i]
        d == inv'[i]
    IN  (Stepped(i) /\ ~c.fault /\ c.pc \in {"error", "ERRBUF", "xfree"}) =>
           /\ d.r = c.r /\ d.s = c.s
           /\ c.pc = "xfree" => (d.rawret = CRYPT_OK /\ d.sig = <<c.r, c.s>>)

\* C12: on every successful return of dsa_sign_hash_raw, after any number of
\* retries, r = (g^k mod p) mod q and s = ((h + x*r) * k_inv) mod q for the
\* most recently drawn k, its inverse k_inv modulo q and the untruncated value
\* h of the digest.
C12_SignatureOfLastNonce ==
    /\ []C12_FromLastNonce
    /\ [][\A i \in Procs : C12_KeptToReturn(i)]_vars

\* A success after a retry, over a two-byte digest, with r # s.
C12_Witness ==
    \E i \in Procs :
       /\ Succeeding(i) /\ inv[i].ndraws >= 2 /\ Len(inv[i].in) = 2
       /\ inv[i].r # inv[i].s /\ inv[i].k >= key.q

-----------------------------------------------------------------------------
(* C13 *)

\* The statements of lines 63-92, which use the buffer and the temporaries.
UsesScratch(i) ==
    inv[i].pc \in {"retry", "read_k", "cmp_k", "gcd", "while", "invmod",
                   "exptmod", "mod", "chk_r", "read_in", "mul", "add", "mulmod",
                   "chk_s"}

\* C13: the scratch resources of dsa_sign_hash_raw are balanced on every exit
\* path: at the return the buffer, if allocated, has been freed once, the
\* temporaries k, kinv, tmp have been cleared once if and only if their
\* initialisation succeeded, and nothing is used after its release or left
\* allocated.
C13_ScratchBalanced ==
    \A i \in Procs :
       LET c == inv[i] IN
       /\ c.bufst # "bad" /\ c.tmpst # "bad"
       /\ UsesScratch(i) => (c.bufst = "alloc" /\ c.tmpst = "init")
       /\ c.pc = "raw_init" => (c.bufst = "alloc" /\ c.tmpst = "none")
       /\ c.pc = "error" => (c.bufst = "alloc" /\ c.tmpst = "init")
       /\ c.pc \in {"ERRBUF", "xfree"} =>
             /\ c.bufst = "alloc"
             /\ c.tmpst \in {"cleared", "none"}
             /\ c.tmpst = "none" => (c.fault /\ c.ndraws = 0 /\ c.err \in env.errs)
       /\ RawReturned(i) =>
             /\ c.bufst \in {"none", "freed"}
             /\ c.tmpst \in {"none", "cleared"}
             /\ c.tmpst = "cleared" => c.bufst = "freed"
             /\ (c.bufst = "freed" /\ c.tmpst = "none") => (c.fault /\ c.ndraws = 0)
             /\ c.bufst = "none" =>
                   c.rawret \in {CRYPT_PK_NOT_PRIVATE, CRYPT_INVALID_ARG, CRYPT_MEM}

\* A call returned after mp_init_multi failed: buffer freed, nothing cleared.
C13_Witness ==
    \E i \in Procs :
       /\ RawReturned(i) /\ inv[i].bufst = "freed" /\ inv[i].tmpst = "none"
       /\ inv[i].rawret = CRYPT_ERROR

-----------------------------------------------------------------------------
(* C14 *)

\* C14: in a secure-wipe build, on every exit path of dsa_sign_hash_raw that
\* allocated the nonce buffer, the whole buffer has been overwritten with
\* zeros when it is released: no random byte is in it at XFREE or after.
C14_WipedBeforeFree ==
    LTC_CLEAN_STACK =>
       \A i \in Procs :
          (inv[i].pc = "xfree" \/ inv[i].bufst = "freed") =>
             /\ inv[i].bufsz = LTC_MDSA_MAX_GROUP
             /\ inv[i].wiped = inv[i].bufsz
             /\ Len(inv[i].buf) <= inv[i].wiped
             /\ \A j \in 1..Len(inv[i].buf) : inv[i].buf[j] = 0

\* A call that drew twice and succeeded, so that the buffer held a nonce
\* above 1, is about to free a buffer of zeros.
C14_Witness ==
    \E i \in Procs :
       /\ inv[i].pc = "xfree" /\ ~inv[i].fault /\ inv[i].ndraws >= 2
       /\ inv[i].buf = <<0>> /\ inv[i].sig = <<0, 0>> /\ inv[i].r > 0

-----------------------------------------------------------------------------
(* C15 *)

\* The statements in program order.
PcOrder ==
    <<"idle", "sign_init", "raw_validate", "raw_malloc", "raw_init", "retry",
      "read_k", "cmp_k", "gcd", "while", "invmod", "exptmod", "mod", "chk_r",
      "read_in", "mul", "add", "mulmod", "chk_s", "error", "ERRBUF", "xfree",
      "sign_chk", "sign_encode", "sign_error", "done">>

Rank(l) == CHOOSE n \in 1..Len(PcOrder) : PcOrder[n] = l

\* A valid private key whose qord is the size of q in bytes or more.
WellSizedKey(K) == ValidKey(K) /\ K.qord >= 1 /\ K.q < 256 ^ K.qord

\* A step of invocation i goes forward in program order, or goes back to the
\* retry label for one of the four degenerate outcomes.
C15_ForwardOrRetry(i) ==
    inv'[i] # inv[i] =>
       \/ Rank(inv'[i].pc) > Rank(inv[i].pc)
       \/ /\ inv'[i].pc = "retry"
          /\ \/ inv[i].pc = "cmp_k" /\ inv[i].k <= 1
             \/ inv[i].pc = "while" /\ inv[i].tmp # 1
             \/ inv[i].pc = "chk_r" /\ inv[i].r = 0
             \/ inv[i].pc = "chk_s" /\ inv[i].s = 0

\* With a valid private key, dsa_sign_hash_raw once entered returns.
C15_Returns ==
    \A i \in Procs :
       (inv[i].pc = "raw_validate" /\ WellSizedKey(key)) ~> RawReturned(i)

\* C15: for a valid private key and any digest, with an engine and allocator
\* that do not fail and a fair random source, dsa_sign_hash_raw eventually
\* returns; the only backward jumps are the retries for k <= 1, gcd # 1,
\* r = 0 and s = 0, every other step goes forward.
C15_OnlyRetryCycles ==
    /\ [][\A i \in Procs : C15_ForwardOrRetry(i)]_vars
    /\ C15_Returns

\* A call with a valid key that went around the retry loop and returned a
\* signature.
C15_Witness ==
    \E i \in Procs :
       /\ WellSizedKey(key) /\ env = LiveEnv /\ inv[i].ndraws >= 2
       /\ inv[i].rawret = CRYPT_OK /\ inv[i].sig[1] > 0 /\ inv[i].sig[2] > 0

-----------------------------------------------------------------------------
(* C16 *)

\* The nonce checks of lines 69 and 73 pass for the buffer value b.
NonceChecksPass(b) ==
    ReadUnsignedBin(b) > 1 /\ Gcd(ReadUnsignedBin(b), key.q) = 1

\* C16: every key the validation of lines 42-49 accepts (private, qord below
\* LTC_MDSA_MAX_GROUP, qord = 0 included, q not inspected) admits a value of
\* the qord-byte random buffer for which k > 1 and gcd(k, q) = 1 both hold,
\* so the nonce loop of an accepted key has an exit.
C16_AcceptedKeyHasExit ==
    \A i \in Procs :
       InRawBody(i) => \E b \in [1..key.qord -> 0..255] : NonceChecksPass(b)

-----------------------------------------------------------------------------
(* C17 *)

\* The validation error of the key, "none" for a key the validation accepts.
ValidationError ==
    IF key.type # PK_PRIVATE THEN CRYPT_PK_NOT_PRIVATE
    ELSE IF key.qord >= LTC_MDSA_MAX_GROUP THEN CRYPT_INVALID_ARG
    ELSE "none"

\* C17: dsa_sign_hash with a non-private key or an oversized group order
\* returns the validation error on every execution, and when the error is
\* decided r and s have not been allocated, no random byte has been drawn
\* and the output buffer and length are as the caller passed them.
C17_ValidationFirst ==
    \A i \in Procs :
       (inv[i].entry = "sign" /\ ValidationError # "none") =>
          /\ inv[i].ret \in {"none", ValidationError}
          /\ inv[i].pc = "sign_chk" =>
                /\ inv[i].rawret = ValidationError
                /\ inv[i].rsst = "none"
                /\ inv[i].ndraws = 0 /\ inv[i].bufst = "none"
                /\ inv[i].outlen = Len(inv[i].out)
                /\ \A j \in 1..Len(inv[i].out) : inv[i].out[j] = 255

-----------------------------------------------------------------------------
(* C18 *)

\* The dsa_sign_hash_raw call inside dsa_sign_hash of invocation i failed.
RawFailedInSign(i) ==
    inv[i].entry = "sign" /\ inv[i].rawret \notin {"none", CRYPT_OK}

\* C18: when dsa_sign_hash_raw fails inside dsa_sign_hash, dsa_sign_hash
\* goes to its error label and returns that error code, the encoder is not
\* invoked, the output buffer and length stay as passed, and r and s are
\* cleared once; the encoder runs only after dsa_sign_hash_raw returned
\* CRYPT_OK.
C18_FailureSkipsEncoder ==
    \A i \in Procs :
       /\ inv[i].pc = "sign_encode" => inv[i].rawret = CRYPT_OK
       /\ RawFailedInSign(i) =>
             /\ inv[i].pc \in {"sign_chk", "sign_error", "done"}
             /\ inv[i].outlen = Len(inv[i].out)
             /\ \A j \in 1..Len(inv[i].out) : inv[i].out[j] = 255
             /\ inv[i].pc = "sign_error" => inv[i].serr = inv[i].rawret
             /\ inv[i].rsst = IF inv[i].pc = "done" THEN "cleared" ELSE "init"
             /\ inv[i].ret = IF inv[i].pc = "done" THEN inv[i].rawret ELSE "none"

\* dsa_sign_hash returned the engine's error of a call that had drawn a
\* nonce, with r and s cleared and the output untouched.
C18_Witness ==
    \E i \in Procs :
       /\ RawFailedInSign(i) /\ inv[i].pc = "done" /\ inv[i].ndraws >= 1
       /\ inv[i].ret = CRYPT_ERROR /\ inv[i].rsst = "cleared"
       /\ inv[i].out # <<>> /\ inv[i].outlen = Len(inv[i].out)

=============================================================================
